---------------------------- MODULE Spec2Model ----------------------------
(***************************************************************************)
(* Model of the AI code reviewer (backend/app/code_reviewer.py and the two *)
(* endpoints of backend/app/main.py).                                      *)
(*                                                                         *)
(* Python strings are sequences of one-character strings, dictionaries are *)
(* functions whose domain is a set of such strings, lists are sequences.   *)
(*                                                                         *)
(* Python ints have no width and TLC integers have 32 bits.  The ints the  *)
(* code itself bounds (the weights, the static scores, lengths and counts) *)
(* are TLC integers.  The ints read out of the feedback, and every int     *)
(* computed from one (the combined scores, the overall score), are natural *)
(* numbers of any size, held as their base-2^15 digits ("limbs"), lowest   *)
(* first, without a leading zero limb: 0 is <<>>, 85 is <<85>>, 99999 is   *)
(* <<1695, 3>>.  BigFromInt and BigToInt convert.                          *)
(*                                                                         *)
(* Python floats are IEEE-754 doubles, modelled exactly: a non-negative    *)
(* double is a record [m, e] of value m * 2^e whose 53-bit mantissa m is   *)
(* such a natural number.                                                  *)
(***************************************************************************)
EXTENDS Integers, Sequences, FiniteSets, TLC

VARIABLES pc, request, calls, static_analysis, text_response, ai_analysis, response

vars == <<pc, request, calls, static_analysis, text_response, ai_analysis, response>>

-----------------------------------------------------------------------------
(* Natural numbers of any size: little-endian limbs, no leading zero limb. *)
(* The operations that carry from limb to limb halve the limbs instead of  *)
(* walking them, to keep the recursion shallow: the half the carry comes   *)
(* from is computed first and hands its carry to the other half.  A value  *)
(* used more than once is the parameter of a local operator.               *)

LimbBits == 15

Limb == 2 ^ LimbBits

\* a without its leading zero limbs
BigNorm(a) ==
    LET used == {i \in 1..Len(a) : a[i] # 0}
        top  == CHOOSE i \in used : \A j \in used : j <= i
    IN  IF used = {} THEN <<>> ELSE SubSeq(a, 1, top)

RECURSIVE BigFromInt(_)
BigFromInt(n) ==
    IF n = 0 THEN <<>> ELSE <<n % Limb>> \o BigFromInt(n \div Limb)

\* for a < 2^31
RECURSIVE BigToInt(_)
BigToInt(a) ==
    IF a = <<>> THEN 0 ELSE Head(a) + Limb * BigToInt(Tail(a))

\* e, with a evaluated before it: TLC evaluates an operand where it is first
\* used, inside the operator it is given to, and a long computation written
\* as one expression nests deeper than its stack allows
Then(a, e) == CASE a = a -> e

LimbAt(a, i) == IF i <= Len(a) THEN a[i] ELSE 0

\* a + b
BigAdd(a, b) ==
    LET n == IF Len(a) > Len(b) THEN Len(a) ELSE Len(b)
        RECURSIVE Range(_, _, _)
        Glue(low, high) == [s |-> low.s \o high.s, carry |-> high.carry]
        After(low, lo, hi) == Then(low, Glue(low, Range(lo, hi, low.carry)))
        Range(lo, hi, carry) ==
            IF lo = hi
            THEN [s     |-> <<(LimbAt(a, lo) + LimbAt(b, lo) + carry) % Limb>>,
                  carry |-> (LimbAt(a, lo) + LimbAt(b, lo) + carry) \div Limb]
            ELSE After(Range(lo, (lo + hi) \div 2, carry), (lo + hi) \div 2 + 1, hi)
        Close(sum) == BigNorm(sum.s \o <<sum.carry>>)
    IN  Then(a, Then(b, IF n = 0 THEN <<>> ELSE Close(Range(1, n, 0))))

\* -1, 0, 1 as a < b, a = b, a > b (both normalised)
BigCmp(a, b) ==
    LET differ == {i \in 1..Len(a) : a[i] # LimbAt(b, i)}
        top    == CHOOSE i \in differ : \A j \in differ : j <= i
    IN  IF Len(a) < Len(b) THEN -1
        ELSE IF Len(a) > Len(b) THEN 1
        ELSE IF differ = {} THEN 0
        ELSE IF a[top] < b[top] THEN -1 ELSE 1

BigShiftLimbs(a, n) == IF a = <<>> THEN <<>> ELSE [i \in 1..n |-> 0] \o a

\* a * k for 0 <= k < Limb
BigMulSmall(a, k) ==
    LET RECURSIVE Range(_, _, _)
        Glue(low, high) == [p |-> low.p \o high.p, carry |-> high.carry]
        After(low, lo, hi) == Then(low, Glue(low, Range(lo, hi, low.carry)))
        Range(lo, hi, carry) ==
            IF lo = hi
            THEN [p     |-> <<(a[lo] * k + carry) % Limb>>,
                  carry |-> (a[lo] * k + carry) \div Limb]
            ELSE After(Range(lo, (lo + hi) \div 2, carry), (lo + hi) \div 2 + 1, hi)
        Close(product) == BigNorm(product.p \o <<product.carry>>)
    IN  Then(a, IF a = <<>> \/ k = 0 THEN <<>> ELSE Close(Range(1, Len(a), 0)))

\* a * b: the sum of a * b[i] * Limb^(i-1)
BigMul(a, b) ==
    LET RECURSIVE Range(_, _)
        Range(lo, hi) ==
            IF lo > hi THEN <<>>
            ELSE IF lo = hi THEN BigShiftLimbs(BigMulSmall(a, b[lo]), lo - 1)
            ELSE BigAdd(Range(lo, (lo + hi) \div 2), Range((lo + hi) \div 2 + 1, hi))
    IN  Then(a, Then(b, Range(1, Len(b))))

\* the quotient and the remainder of a by 0 < k < Limb: long division, from
\* the highest limb down
BigDivSmall(a, k) ==
    LET RECURSIVE Range(_, _, _)
        Glue(high, low) == [q |-> low.q \o high.q, r |-> low.r]
        After(high, lo, hi) == Then(high, Glue(high, Range(lo, hi, high.r)))
        Range(lo, hi, rem) ==
            IF lo > hi THEN [q |-> <<>>, r |-> rem]
            ELSE IF lo = hi
            THEN [q |-> <<(rem * Limb + a[lo]) \div k>>, r |-> (rem * Limb + a[lo]) % k]
            ELSE After(Range((lo + hi) \div 2 + 1, hi, rem), lo, (lo + hi) \div 2)
        Close(d) == [q |-> BigNorm(d.q), r |-> d.r]
    IN  Then(a, Close(Range(1, Len(a), 0)))

RECURSIVE IntBitLen(_)
IntBitLen(n) == IF n = 0 THEN 0 ELSE 1 + IntBitLen(n \div 2)

BigBitLen(a) ==
    IF a = <<>> THEN 0 ELSE LimbBits * (Len(a) - 1) + IntBitLen(a[Len(a)])

\* a * 2^k
BigShl(a, k) ==
    BigShiftLimbs(BigMulSmall(a, 2 ^ (k % LimbBits)), k \div LimbBits)

\* floor(a / 2^k)
BigShr(a, k) ==
    IF k \div LimbBits >= Len(a) THEN <<>>
    ELSE BigDivSmall(SubSeq(a, k \div LimbBits + 1, Len(a)), 2 ^ (k % LimbBits)).q

\* a / 2^k rounded to the nearest natural number, ties to the even one; sticky
\* says that the exact value lies strictly above a.  rest is a % 2^k, the
\* bits the shift drops, and half is 2^(k-1).
BigShrRound(a, k, sticky) ==
    LET whole == k \div LimbBits
        rest  == BigNorm([i \in 1..(whole + 1) |->
                     IF i <= whole THEN LimbAt(a, i)
                     ELSE LimbAt(a, i) % (2 ^ (k % LimbBits))])
        top   == (k - 1) \div LimbBits + 1
        half  == [i \in 1..top |-> IF i = top THEN 2 ^ ((k - 1) % LimbBits) ELSE 0]
        c     == BigCmp(rest, half)
        Nearest(q) ==
            IF c = 1 \/ (c = 0 /\ (sticky \/ (q # <<>> /\ q[1] % 2 = 1)))
            THEN BigAdd(q, <<1>>)
            ELSE q
    IN  IF k = 0 THEN a ELSE Then(a, Nearest(BigShr(a, k)))

-----------------------------------------------------------------------------
(* IEEE-754 binary64 arithmetic, round to nearest even, on the non-negative *)
(* values the scorer computes with: static scores are floored at 0 and the *)
(* pattern \d+ reads no sign.  A double is [m, e] with value m * 2^e and   *)
(* 2^52 <= m < 2^53, or m = <<>> for 0.0.  The exponent is not bounded     *)
(* here: DblOverflows tells the values a double cannot hold, which the     *)
(* operations of the interpreter answer with OverflowError or inf.  No     *)
(* value computed is small enough to be subnormal.                         *)

MantBits == 53

\* doubles are below 2^1024
DblMaxExp == 1024

\* the double nearest to (n + d) * 2^e, where 0 <= d < 1 and sticky = (d # 0)
DblRound(n, e, sticky) ==
    LET len == BigBitLen(n)
        k   == len - MantBits
        Mantissa(q) ==
            IF BigBitLen(q) > MantBits
            THEN [m |-> BigShr(q, 1), e |-> e + k + 1]
            ELSE [m |-> q, e |-> e + k]
    IN  IF Then(n, n = <<>>) THEN [m |-> <<>>, e |-> 0]
        ELSE IF len <= MantBits
        THEN [m |-> BigShl(n, MantBits - len), e |-> e - (MantBits - len)]
        ELSE Mantissa(BigShrRound(n, k, sticky))

\* the rounded value is 2^1024 or more
DblOverflows(x) == x.m # <<>> /\ x.e + MantBits > DblMaxExp

\* float(a) for an int a >= 0 of any size; where it overflows, Python raises
\* OverflowError
DblFromBig(a) == DblRound(a, 0, FALSE)

\* float(n) for an int 0 <= n < 2^31
DblFromInt(n) == DblFromBig(BigFromInt(n))

\* x * y
DblMul(x, y) == DblRound(BigMul(x.m, y.m), x.e + y.e, FALSE)

\* x + y
DblAdd(x, y) ==
    IF x.m = <<>> THEN y
    ELSE IF y.m = <<>> THEN x
    ELSE LET e == IF x.e < y.e THEN x.e ELSE y.e
         IN  DblRound(BigAdd(BigShl(x.m, x.e - e), BigShl(y.m, y.e - e)), e, FALSE)

\* a / b for an int a >= 0 of any size and 0 < b < 2^15: Python's true
\* division, correctly rounded.  The quotient is taken with enough extra bits
\* to round once.
IntTrueDiv(a, b) ==
    LET shift == MantBits + LimbBits + 2
        Rounded(d) == DblRound(d.q, 0 - shift, d.r # 0)
    IN  Rounded(BigDivSmall(BigShl(a, shift), b))

\* a decimal literal num/den (0.7 is 7/10): the nearest double
FloatLiteral(num, den) == IntTrueDiv(BigFromInt(num), den)

\* round(x): the nearest int, ties to the even one
PyRound(x) ==
    IF x.e >= 0 THEN BigShl(x.m, x.e)
    ELSE BigShrRound(x.m, 0 - x.e, FALSE)

-----------------------------------------------------------------------------
(* Strings, lists and dictionaries.                                        *)

NL == "\n"

LowerChars ==
    {"a","b","c","d","e","f","g","h","i","j","k","l","m",
     "n","o","p","q","r","s","t","u","v","w","x","y","z"}

UpperSeq ==
    <<"A","B","C","D","E","F","G","H","I","J","K","L","M",
      "N","O","P","Q","R","S","T","U","V","W","X","Y","Z">>

LowerSeq ==
    <<"a","b","c","d","e","f","g","h","i","j","k","l","m",
      "n","o","p","q","r","s","t","u","v","w","x","y","z">>

UpperChars == {UpperSeq[i] : i \in 1..Len(UpperSeq)}

DigitSeq == <<"0","1","2","3","4","5","6","7","8","9">>

DigitChars == {DigitSeq[i] : i \in 1..Len(DigitSeq)}

\* \w of the re module, on the characters the model uses
WordChars == LowerChars \cup UpperChars \cup DigitChars \cup {"_"}

\* the characters \s matches in a str pattern and str.strip() removes: those
\* str.isspace() holds for.  A character TLA+ has no escape for is written as
\* Python writes it, "\\x0b" for the vertical tab.
SpaceChars ==
    {" ", "\t", "\n", "\r", "\f", "\\x0b", "\\x1c", "\\x1d", "\\x1e", "\\x1f",
     "\\x85", "\\xa0", "\\u1680", "\\u2000", "\\u2001", "\\u2002", "\\u2003",
     "\\u2004", "\\u2005", "\\u2006", "\\u2007", "\\u2008", "\\u2009", "\\u200a",
     "\\u2028", "\\u2029", "\\u202f", "\\u205f", "\\u3000"}

Rep(n, x) == [i \in 1..n |-> x]

Min(a, b) == IF a < b THEN a ELSE b

Max(a, b) == IF a > b THEN a ELSE b

\* seqs[lo] \o ... \o seqs[hi], halving the range to keep the recursion shallow
RECURSIVE ConcatRange(_, _, _)
ConcatRange(seqs, lo, hi) ==
    IF lo > hi THEN <<>>
    ELSE IF lo = hi THEN seqs[lo]
    ELSE LET mid == (lo + hi) \div 2
         IN  ConcatRange(seqs, lo, mid) \o ConcatRange(seqs, mid + 1, hi)

Concat(seqs) == ConcatRange(seqs, 1, Len(seqs))

\* s[lo] + ... + s[hi]
RECURSIVE SumRange(_, _, _)
SumRange(s, lo, hi) ==
    IF lo > hi THEN 0
    ELSE IF lo = hi THEN s[lo]
    ELSE LET mid == (lo + hi) \div 2
         IN  SumRange(s, lo, mid) + SumRange(s, mid + 1, hi)

\* sum(s) of a list
Sum(s) == SumRange(s, 1, Len(s))

\* sep.join(parts)
Join(parts, sep) ==
    Concat([i \in 1..Len(parts) |-> IF i = 1 THEN parts[1] ELSE <<sep>> \o parts[i]])

\* s.split(sep): the pieces between the occurrences of sep, in order
Split(s, sep) ==
    LET at == {i \in 1..Len(s) : s[i] = sep}
        \* the position of the k-th sep; 0 before the first, Len(s) + 1 after the last
        cut(k) == IF k = 0 THEN 0
                  ELSE IF k > Cardinality(at) THEN Len(s) + 1
                  ELSE CHOOSE i \in at : Cardinality({j \in at : j <= i}) = k
    IN  [k \in 1..(Cardinality(at) + 1) |-> SubSeq(s, cut(k - 1) + 1, cut(k) - 1)]

\* s.startswith(prefix)
StartsWith(s, prefix) ==
    Len(s) >= Len(prefix) /\ SubSeq(s, 1, Len(prefix)) = prefix

\* bool(s.strip())
StripIsNonEmpty(s) == \E i \in 1..Len(s) : s[i] \notin SpaceChars

\* c.lower()
LowerChar(c) ==
    IF c \in UpperChars
    THEN LowerSeq[CHOOSE i \in 1..Len(UpperSeq) : UpperSeq[i] = c]
    ELSE c

\* s.lower()
Lower(s) == [i \in 1..Len(s) |-> LowerChar(s[i])]

\* d.get(key, default)
Get(d, key, default) == IF key \in DOMAIN d THEN d[key] ELSE default

\* d with d[key] = value
Put(d, key, value) ==
    [k \in DOMAIN d \cup {key} |-> IF k = key THEN value ELSE d[k]]

\* sum(values) of a dictionary with the given keys
RECURSIVE SumOver(_, _)
SumOver(d, keys) ==
    IF keys = {} THEN 0
    ELSE LET k == CHOOSE x \in keys : TRUE
         IN  d[k] + SumOver(d, keys \ {k})

-----------------------------------------------------------------------------
(* Exceptions and responses.  An exception is its class, the status code   *)
(* of an HTTPException, and str(e), where {...} stands for the value the   *)
(* message is formatted with.                                              *)

NoException == [type |-> "None", status_code |-> 0, detail |-> ""]

\* raise ValueError(f"Unsupported language: {language}")
UnsupportedLanguage ==
    [type |-> "ValueError", status_code |-> 0, detail |-> "Unsupported language: {language}"]

\* self._analyze_javascript: the class defines no such method
NoAnalyzeJavascript ==
    [type |-> "AttributeError", status_code |-> 0,
     detail |-> "'AiCodeReviewer' object has no attribute '_analyze_javascript'"]

\* ast.parse on text nested deeper than the interpreter builds a tree for
AstTooDeep ==
    [type |-> "RecursionError", status_code |-> 0,
     detail |-> "maximum recursion depth exceeded during ast construction"]

\* ast.parse on text nested deeper than the parser's own stack: str(e) is ''
AstOutOfMemory == [type |-> "MemoryError", status_code |-> 0, detail |-> ""]

\* ast.parse on a str that has no UTF-8 encoding: a lone surrogate
AstNotEncodable ==
    [type |-> "UnicodeEncodeError", status_code |-> 0,
     detail |-> "'utf-8' codec can't encode character '\\ud800' in position {start}: surrogates not allowed"]

\* whatever self.model.generate_content raises
ExternalCallFailed == [type |-> "Exception", status_code |-> 0, detail |-> "generate_content"]

\* int(s) on more than sys.get_int_max_str_digits() digits
IntStrTooLong ==
    [type |-> "ValueError", status_code |-> 0,
     detail |-> "Exceeds the limit (4300 digits) for integer string conversion: value has {len(s)} digits; use sys.set_int_max_str_digits() to increase the limit"]

\* an int operand of a float product that no double holds
IntTooLargeForFloat ==
    [type |-> "OverflowError", status_code |-> 0,
     detail |-> "int too large to convert to float"]

\* int / int whose quotient no double holds
DivisionTooLargeForFloat ==
    [type |-> "OverflowError", status_code |-> 0,
     detail |-> "integer division result too large for a float"]

\* round(inf)
RoundOfInfinity ==
    [type |-> "OverflowError", status_code |-> 0,
     detail |-> "cannot convert float infinity to integer"]

\* HTTPException(status_code=400, detail=...)
UnsupportedFileType ==
    [type |-> "HTTPException", status_code |-> 400,
     detail |-> "Unsupported file type. Only .py, .js, and .jsx files are supported."]

\* file.filename.split on an upload that carries no file name
NoneHasNoSplit ==
    [type |-> "AttributeError", status_code |-> 0,
     detail |-> "'NoneType' object has no attribute 'split'"]

\* content.decode() on bytes that are no UTF-8
ContentNotUtf8 ==
    [type |-> "UnicodeDecodeError", status_code |-> 0,
     detail |-> "'utf-8' codec can't decode byte 0xff in position 0: invalid start byte"]

\* HTTPException(status_code=500, detail=f"{prefix}{str(e)}") as the response
ServerError(prefix, e) ==
    [status_code |-> 500, detail |-> <<prefix, e>>, body |-> <<>>]

\* a CodeReviewResponse, sent with status 200
CodeReviewResponse(result, language) ==
    [status_code |-> 200,
     detail      |-> <<>>,
     body        |-> [overall_score     |-> result.overall_score,
                      breakdown         |-> result.breakdown,
                      recommendations   |-> result.recommendations,
                      detailed_feedback |-> result.detailed_feedback,
                      language          |-> language]]

-----------------------------------------------------------------------------
(* The ast module.  A node is [kind, ident, const, kids]: its class, its   *)
(* name or id attribute, the type of a Constant's value, and its child     *)
(* nodes in the order of ast.iter_child_nodes, each with the field it sits *)
(* in.  ast.parse is the interpreter's: its result travels with the source *)
(* text, and the sample statements below were parsed by it.                *)

Node(kind, ident, const, kids) ==
    [kind |-> kind, ident |-> ident, const |-> const, kids |-> kids]

Kid(role, node) == [role |-> role, node |-> node]

\* node.<role> as a list: the children held by that field, in order
Field(node, role) ==
    Concat([i \in 1..Len(node.kids) |->
        IF node.kids[i].role = role THEN <<node.kids[i].node>> ELSE <<>>])

\* ast.iter_child_nodes(node)
ChildNodes(node) == [i \in 1..Len(node.kids) |-> node.kids[i].node]

\* ast.walk: breadth first.  The queue of ast.walk yields the nodes level by
\* level, each level in the order of its parents, so one step takes a level.
RECURSIVE WalkLevel(_)
WalkLevel(level) ==
    IF level = <<>> THEN <<>>
    ELSE level \o WalkLevel(Concat([i \in 1..Len(level) |-> ChildNodes(level[i])]))

Walk(tree) == WalkLevel(<<tree>>)

\* isinstance(node, ast.Str): a Constant holding a str
IsStr(node) == node.kind = "Constant" /\ node.const = "str"

IsFunctionDef(node) == node.kind \in {"FunctionDef", "AsyncFunctionDef"}

-----------------------------------------------------------------------------
(* Sample statements of Python source, each with its lines and the nodes   *)
(* ast.parse gives for it.                                                 *)

\* a well-named assignment
\*     x = 1
StmtAssign ==
    [lines  |-> <<<<"x"," ","="," ","1">>>>,
     raises |-> "None",
     body   |-> <<Kid("body", Node("Assign", <<>>, "", <<Kid("targets", Node("Name", <<"x">>, "", <<Kid("ctx", Node("Store", <<>>, "", <<>>))>>)), Kid("value", Node("Constant", <<>>, "int", <<>>))>>))>>]

\* three names that are not snake_case
\*     A = B = C
StmtBadNames ==
    [lines  |-> <<<<"A"," ","="," ","B"," ","="," ","C">>>>,
     raises |-> "None",
     body   |-> <<Kid("body", Node("Assign", <<>>, "", <<Kid("targets", Node("Name", <<"A">>, "", <<Kid("ctx", Node("Store", <<>>, "", <<>>))>>)), Kid("targets", Node("Name", <<"B">>, "", <<Kid("ctx", Node("Store", <<>>, "", <<>>))>>)), Kid("value", Node("Name", <<"C">>, "", <<Kid("ctx", Node("Load", <<>>, "", <<>>))>>))>>))>>]

\* a bare string literal
\*     """doc"""
StmtDocstring ==
    [lines  |-> <<<<"\"","\"","\"","d","o","c","\"","\"","\"">>>>,
     raises |-> "None",
     body   |-> <<Kid("body", Node("Expr", <<>>, "", <<Kid("value", Node("Constant", <<>>, "str", <<>>))>>))>>]

\* two functions of more than 20 statements and more than 5 parameters
\*     def F(a, b, c, d, e, f):
\*         def G(a, b, c, d, e, f):
\*             pass
\*             pass
\*             pass
\*             pass
\*     ...
StmtLongFunctions ==
    [lines  |-> <<<<"d","e","f"," ","F","(","a",","," ","b",","," ","c",","," ","d",","," ","e",","," ","f",")",":">>, <<" "," "," "," ","d","e","f"," ","G","(","a",","," ","b",","," ","c",","," ","d",","," ","e",","," ","f",")",":">>>> \o Rep(21, <<" "," "," "," "," "," "," "," ","p","a","s","s">>) \o Rep(20, <<" "," "," "," ","p","a","s","s">>),
     raises |-> "None",
     body   |-> <<Kid("body", Node("FunctionDef", <<"F">>, "", <<Kid("args", Node("arguments", <<>>, "", Rep(6, Kid("args", Node("arg", <<>>, "", <<>>))))), Kid("body", Node("FunctionDef", <<"G">>, "", <<Kid("args", Node("arguments", <<>>, "", Rep(6, Kid("args", Node("arg", <<>>, "", <<>>)))))>> \o Rep(21, Kid("body", Node("Pass", <<>>, "", <<>>)))))>> \o Rep(20, Kid("body", Node("Pass", <<>>, "", <<>>)))))>>]

\* a short async function of 5 parameters
\*     async def g(a, b, c, d, e):
\*         return a
StmtAsyncDef ==
    [lines  |-> <<<<"a","s","y","n","c"," ","d","e","f"," ","g","(","a",","," ","b",","," ","c",","," ","d",","," ","e",")",":">>, <<" "," "," "," ","r","e","t","u","r","n"," ","a">>>>,
     raises |-> "None",
     body   |-> <<Kid("body", Node("AsyncFunctionDef", <<"g">>, "", <<Kid("args", Node("arguments", <<>>, "", Rep(5, Kid("args", Node("arg", <<>>, "", <<>>))))), Kid("body", Node("Return", <<>>, "", <<Kid("value", Node("Name", <<"a">>, "", <<Kid("ctx", Node("Load", <<>>, "", <<>>))>>))>>))>>))>>]

\* a try with no handler and two global declarations
\*     try:
\*         global g
\*     finally:
\*         global h
StmtTryFinallyGlobals ==
    [lines  |-> <<<<"t","r","y",":">>, <<" "," "," "," ","g","l","o","b","a","l"," ","g">>, <<"f","i","n","a","l","l","y",":">>, <<" "," "," "," ","g","l","o","b","a","l"," ","h">>>>,
     raises |-> "None",
     body   |-> <<Kid("body", Node("Try", <<>>, "", <<Kid("body", Node("Global", <<>>, "", <<>>)), Kid("finalbody", Node("Global", <<>>, "", <<>>))>>))>>]

\* a try with a handler
\*     try:
\*         pass
\*     except E:
\*         pass
StmtTryExcept ==
    [lines  |-> <<<<"t","r","y",":">>, <<" "," "," "," ","p","a","s","s">>, <<"e","x","c","e","p","t"," ","E",":">>, <<" "," "," "," ","p","a","s","s">>>>,
     raises |-> "None",
     body   |-> <<Kid("body", Node("Try", <<>>, "", <<Kid("body", Node("Pass", <<>>, "", <<>>)), Kid("handlers", Node("ExceptHandler", <<>>, "", <<Kid("type", Node("Name", <<"E">>, "", <<Kid("ctx", Node("Load", <<>>, "", <<>>))>>)), Kid("body", Node("Pass", <<>>, "", <<>>))>>))>>))>>]

\* four names called four times each, over five lines
\*     a(a(a(a(
\*     b(b(b(b(
\*     c(c(c(c(
\*     d(d(d(d(1
\*     ))))))))))))))))
StmtCallsAD ==
    [lines  |-> <<<<"a","(","a","(","a","(","a","(">>, <<"b","(","b","(","b","(","b","(">>, <<"c","(","c","(","c","(","c","(">>, <<"d","(","d","(","d","(","d","(","1">>, <<")",")",")",")",")",")",")",")",")",")",")",")",")",")",")",")">>>>,
     raises |-> "None",
     body   |-> <<Kid("body", Node("Expr", <<>>, "", <<Kid("value", Node("Call", <<>>, "", <<Kid("func", Node("Name", <<"a">>, "", <<Kid("ctx", Node("Load", <<>>, "", <<>>))>>)), Kid("args", Node("Call", <<>>, "", <<Kid("func", Node("Name", <<"a">>, "", <<Kid("ctx", Node("Load", <<>>, "", <<>>))>>)), Kid("args", Node("Call", <<>>, "", <<Kid("func", Node("Name", <<"a">>, "", <<Kid("ctx", Node("Load", <<>>, "", <<>>))>>)), Kid("args", Node("Call", <<>>, "", <<Kid("func", Node("Name", <<"a">>, "", <<Kid("ctx", Node("Load", <<>>, "", <<>>))>>)), Kid("args", Node("Call", <<>>, "", <<Kid("func", Node("Name", <<"b">>, "", <<Kid("ctx", Node("Load", <<>>, "", <<>>))>>)), Kid("args", Node("Call", <<>>, "", <<Kid("func", Node("Name", <<"b">>, "", <<Kid("ctx", Node("Load", <<>>, "", <<>>))>>)), Kid("args", Node("Call", <<>>, "", <<Kid("func", Node("Name", <<"b">>, "", <<Kid("ctx", Node("Load", <<>>, "", <<>>))>>)), Kid("args", Node("Call", <<>>, "", <<Kid("func", Node("Name", <<"b">>, "", <<Kid("ctx", Node("Load", <<>>, "", <<>>))>>)), Kid("args", Node("Call", <<>>, "", <<Kid("func", Node("Name", <<"c">>, "", <<Kid("ctx", Node("Load", <<>>, "", <<>>))>>)), Kid("args", Node("Call", <<>>, "", <<Kid("func", Node("Name", <<"c">>, "", <<Kid("ctx", Node("Load", <<>>, "", <<>>))>>)), Kid("args", Node("Call", <<>>, "", <<Kid("func", Node("Name", <<"c">>, "", <<Kid("ctx", Node("Load", <<>>, "", <<>>))>>)), Kid("args", Node("Call", <<>>, "", <<Kid("func", Node("Name", <<"c">>, "", <<Kid("ctx", Node("Load", <<>>, "", <<>>))>>)), Kid("args", Node("Call", <<>>, "", <<Kid("func", Node("Name", <<"d">>, "", <<Kid("ctx", Node("Load", <<>>, "", <<>>))>>)), Kid("args", Node("Call", <<>>, "", <<Kid("func", Node("Name", <<"d">>, "", <<Kid("ctx", Node("Load", <<>>, "", <<>>))>>)), Kid("args", Node("Call", <<>>, "", <<Kid("func", Node("Name", <<"d">>, "", <<Kid("ctx", Node("Load", <<>>, "", <<>>))>>)), Kid("args", Node("Call", <<>>, "", <<Kid("func", Node("Name", <<"d">>, "", <<Kid("ctx", Node("Load", <<>>, "", <<>>))>>)), Kid("args", Node("Constant", <<>>, "int", <<>>))>>))>>))>>))>>))>>))>>))>>))>>))>>))>>))>>))>>))>>))>>))>>))>>))>>))>>]

\* four more, a method call and a name called three times
\*     e(e(e(e(
\*     f(f(f(f(
\*     g(g(g(g(
\*     h(h(h(h(o.m(k(k(k(2))))
\*     ))))))))))))))))
StmtCallsEH ==
    [lines  |-> <<<<"e","(","e","(","e","(","e","(">>, <<"f","(","f","(","f","(","f","(">>, <<"g","(","g","(","g","(","g","(">>, <<"h","(","h","(","h","(","h","(","o",".","m","(","k","(","k","(","k","(","2",")",")",")",")">>, <<")",")",")",")",")",")",")",")",")",")",")",")",")",")",")",")">>>>,
     raises |-> "None",
     body   |-> <<Kid("body", Node("Expr", <<>>, "", <<Kid("value", Node("Call", <<>>, "", <<Kid("func", Node("Name", <<"e">>, "", <<Kid("ctx", Node("Load", <<>>, "", <<>>))>>)), Kid("args", Node("Call", <<>>, "", <<Kid("func", Node("Name", <<"e">>, "", <<Kid("ctx", Node("Load", <<>>, "", <<>>))>>)), Kid("args", Node("Call", <<>>, "", <<Kid("func", Node("Name", <<"e">>, "", <<Kid("ctx", Node("Load", <<>>, "", <<>>))>>)), Kid("args", Node("Call", <<>>, "", <<Kid("func", Node("Name", <<"e">>, "", <<Kid("ctx", Node("Load", <<>>, "", <<>>))>>)), Kid("args", Node("Call", <<>>, "", <<Kid("func", Node("Name", <<"f">>, "", <<Kid("ctx", Node("Load", <<>>, "", <<>>))>>)), Kid("args", Node("Call", <<>>, "", <<Kid("func", Node("Name", <<"f">>, "", <<Kid("ctx", Node("Load", <<>>, "", <<>>))>>)), Kid("args", Node("Call", <<>>, "", <<Kid("func", Node("Name", <<"f">>, "", <<Kid("ctx", Node("Load", <<>>, "", <<>>))>>)), Kid("args", Node("Call", <<>>, "", <<Kid("func", Node("Name", <<"f">>, "", <<Kid("ctx", Node("Load", <<>>, "", <<>>))>>)), Kid("args", Node("Call", <<>>, "", <<Kid("func", Node("Name", <<"g">>, "", <<Kid("ctx", Node("Load", <<>>, "", <<>>))>>)), Kid("args", Node("Call", <<>>, "", <<Kid("func", Node("Name", <<"g">>, "", <<Kid("ctx", Node("Load", <<>>, "", <<>>))>>)), Kid("args", Node("Call", <<>>, "", <<Kid("func", Node("Name", <<"g">>, "", <<Kid("ctx", Node("Load", <<>>, "", <<>>))>>)), Kid("args", Node("Call", <<>>, "", <<Kid("func", Node("Name", <<"g">>, "", <<Kid("ctx", Node("Load", <<>>, "", <<>>))>>)), Kid("args", Node("Call", <<>>, "", <<Kid("func", Node("Name", <<"h">>, "", <<Kid("ctx", Node("Load", <<>>, "", <<>>))>>)), Kid("args", Node("Call", <<>>, "", <<Kid("func", Node("Name", <<"h">>, "", <<Kid("ctx", Node("Load", <<>>, "", <<>>))>>)), Kid("args", Node("Call", <<>>, "", <<Kid("func", Node("Name", <<"h">>, "", <<Kid("ctx", Node("Load", <<>>, "", <<>>))>>)), Kid("args", Node("Call", <<>>, "", <<Kid("func", Node("Name", <<"h">>, "", <<Kid("ctx", Node("Load", <<>>, "", <<>>))>>)), Kid("args", Node("Call", <<>>, "", <<Kid("func", Node("Attribute", <<>>, "", <<Kid("value", Node("Name", <<"o">>, "", <<Kid("ctx", Node("Load", <<>>, "", <<>>))>>)), Kid("ctx", Node("Load", <<>>, "", <<>>))>>)), Kid("args", Node("Call", <<>>, "", <<Kid("func", Node("Name", <<"k">>, "", <<Kid("ctx", Node("Load", <<>>, "", <<>>))>>)), Kid("args", Node("Call", <<>>, "", <<Kid("func", Node("Name", <<"k">>, "", <<Kid("ctx", Node("Load", <<>>, "", <<>>))>>)), Kid("args", Node("Call", <<>>, "", <<Kid("func", Node("Name", <<"k">>, "", <<Kid("ctx", Node("Load", <<>>, "", <<>>))>>)), Kid("args", Node("Constant", <<>>, "int", <<>>))>>))>>))>>))>>))>>))>>))>>))>>))>>))>>))>>))>>))>>))>>))>>))>>))>>))>>))>>))>>))>>))>>]

\* a comment line of 80 characters
\*     ############################################################...
StmtLongComment ==
    [lines  |-> <<<<"#","#","#","#","#","#","#","#","#","#","#","#","#","#","#","#","#","#","#","#","#","#","#","#","#","#","#","#","#","#","#","#","#","#","#","#","#","#","#","#","#","#","#","#","#","#","#","#","#","#","#","#","#","#","#","#","#","#","#","#","#","#","#","#","#","#","#","#","#","#","#","#","#","#","#","#","#","#","#","#">>>>,
     raises |-> "None",
     body   |-> <<>>]

\* an indented continuation line and a blank line of spaces
\*     y = (
\*         2)
\*         
StmtContinuation ==
    [lines  |-> <<<<"y"," ","="," ","(">>, <<" "," "," "," ","2",")">>, <<" "," "," "," ">>>>,
     raises |-> "None",
     body   |-> <<Kid("body", Node("Assign", <<>>, "", <<Kid("targets", Node("Name", <<"y">>, "", <<Kid("ctx", Node("Store", <<>>, "", <<>>))>>)), Kid("value", Node("Constant", <<>>, "int", <<>>))>>))>>]

\* not Python
\*     def (
StmtSyntaxError ==
    [lines  |-> <<<<"d","e","f"," ","(">>>>,
     raises |-> "SyntaxError",
     body   |-> <<>>]

\* Python that nests deeper than ast.parse builds a tree for
\*     x = a.b.b.b ... .b        (20000 times .b)
StmtDeepAttribute ==
    [lines  |-> <<<<"x"," ","="," ","a">> \o Concat(Rep(20000, <<".","b">>))>>,
     raises |-> "RecursionError",
     body   |-> <<>>]

\* Python whose nesting the parser itself gives up on: MemoryError
\*     x = ----- ... -1          (20000 times -)
StmtDeepUnary ==
    [lines  |-> <<<<"x"," ","="," ">> \o Rep(20000, "-") \o <<"1">>>>,
     raises |-> "MemoryError",
     body   |-> <<>>]

\* a string literal with a line of one vertical tab
\*     x = """
\*     <VT>
\*     """
StmtVerticalTabLine ==
    [lines  |-> <<<<"x"," ","="," ","\"","\"","\"">>, <<"\\x0b">>, <<"\"","\"","\"">>>>,
     raises |-> "None",
     body   |-> <<Kid("body", Node("Assign", <<>>, "", <<Kid("targets", Node("Name", <<"x">>, "", <<Kid("ctx", Node("Store", <<>>, "", <<>>))>>)), Kid("value", Node("Constant", <<>>, "str", <<>>))>>))>>]

\* a str with a lone surrogate, as the JSON text "\ud800" decodes to
\*     x = "<U+D800>"
StmtLoneSurrogate ==
    [lines  |-> <<<<"x"," ","="," ","\"","\\ud800","\"">>>>,
     raises |-> "UnicodeEncodeError",
     body   |-> <<>>]

\* every sample statement that ast.parse answers with a tree or a SyntaxError,
\* in the order the bounded programs draw them
Statements ==
    <<StmtAssign, StmtBadNames, StmtDocstring, StmtLongFunctions, StmtAsyncDef,
      StmtTryFinallyGlobals, StmtTryExcept, StmtCallsAD, StmtCallsEH,
      StmtLongComment, StmtContinuation, StmtVerticalTabLine, StmtSyntaxError>>

\* the source text made of the statements stmts, one after the other, with
\* the result of ast.parse on it: the tree, or the exception raised.  The
\* text is encoded first, which raises UnicodeEncodeError wherever it has a
\* lone surrogate.  The parser then goes through the text and stops at the
\* first statement it fails on, with a SyntaxError or a MemoryError; the tree
\* of a text it accepts is built afterwards, and that raises RecursionError
\* where a statement is too deep.  text tells a str, or the bytes of one,
\* from bytes that decode to no str.
\* the bytes ff fe of an uploaded file: content.decode() raises on them
NotUtf8 == [source |-> <<"\\xff", "\\xfe">>, text |-> FALSE]

Program(stmts) ==
    [source |-> Join(Concat([i \in 1..Len(stmts) |-> stmts[i].lines]), NL),
     text   |-> TRUE,
     ast    |-> [raised |->
                    LET unparsed == {i \in 1..Len(stmts) :
                                        stmts[i].raises \in {"SyntaxError", "MemoryError"}}
                        first    == CHOOSE i \in unparsed : \A j \in unparsed : i <= j
                    IN  IF \E i \in 1..Len(stmts) : stmts[i].raises = "UnicodeEncodeError"
                        THEN "UnicodeEncodeError"
                        ELSE IF unparsed # {} THEN stmts[first].raises
                        ELSE IF \E i \in 1..Len(stmts) : stmts[i].raises = "RecursionError"
                        THEN "RecursionError"
                        ELSE "None",
                 tree |-> Node("Module", <<>>, "",
                               Concat([i \in 1..Len(stmts) |-> stmts[i].body]))]]

-----------------------------------------------------------------------------
(* AiCodeReviewer                                                          *)

naming == <<"n","a","m","i","n","g">>

modularity == <<"m","o","d","u","l","a","r","i","t","y">>

comments == <<"c","o","m","m","e","n","t","s">>

formatting == <<"f","o","r","m","a","t","t","i","n","g">>

reusability == <<"r","e","u","s","a","b","i","l","i","t","y">>

best_practices == <<"b","e","s","t","_","p","r","a","c","t","i","c","e","s">>

\* self.categories
categories ==
    [c \in {naming, modularity, comments, formatting, reusability, best_practices} |->
        CASE c = naming         -> 10
          [] c = modularity     -> 20
          [] c = comments       -> 20
          [] c = formatting     -> 15
          [] c = reusability    -> 15
          [] c = best_practices -> 20]

CategorySet == DOMAIN categories

\* re.match(r'^[a-z][a-z0-9_]*$', s): $ also matches before a final newline
MatchesSnakeCase(s) ==
    LET body == IF s # <<>> /\ s[Len(s)] = NL THEN SubSeq(s, 1, Len(s) - 1) ELSE s
    IN  /\ body # <<>>
        /\ body[1] \in LowerChars
        /\ \A i \in 2..Len(body) : body[i] \in LowerChars \cup DigitChars \cup {"_"}

\* _check_naming_conventions: score -= 2 for every offending node of the walk
NamingPenalties(nodes) ==
    [i \in 1..Len(nodes) |->
        IF /\ (IsFunctionDef(nodes[i]) \/ nodes[i].kind = "Name")
           /\ ~MatchesSnakeCase(nodes[i].ident)
        THEN 2 ELSE 0]

_check_naming_conventions(tree) ==
    LET score == 10 - Sum(NamingPenalties(Walk(tree)))
    IN  Max(0, score)

\* len(node.args.args)
ArgsLen(node) == Len(Field(Field(node, "args")[1], "args"))

\* _check_modularity: score -= 5 and score -= 3, for every function
ModularityPenalties(nodes) ==
    [i \in 1..Len(nodes) |->
        IF IsFunctionDef(nodes[i])
        THEN (IF Len(Field(nodes[i], "body")) > 20 THEN 5 ELSE 0)
             + (IF ArgsLen(nodes[i]) > 5 THEN 3 ELSE 0)
        ELSE 0]

_check_modularity(tree) ==
    LET score == 20 - Sum(ModularityPenalties(Walk(tree)))
    IN  Max(0, score)

\* ast.parse(code) of a text that parsed before
_check_comments(code) ==
    LET score == 20
        nodes == Walk(code.ast.tree)
        docstrings ==
            Cardinality({i \in 1..Len(nodes) :
                /\ nodes[i].kind = "Expr"
                /\ IsStr(Field(nodes[i], "value")[1])})
    IN  Min(20, score + docstrings * 5)

\* _check_formatting: score -= 2 for every offending line
FormattingPenalties(lines) ==
    [i \in 1..Len(lines) |->
        IF \/ Len(lines[i]) > 79
           \/ (StripIsNonEmpty(lines[i]) /\ ~StartsWith(lines[i], Rep(4, " ")))
        THEN 2 ELSE 0]

_check_formatting(code) ==
    LET score == 15 - Sum(FormattingPenalties(Split(code.source, NL)))
    IN  Max(0, score)

\* function_calls: for every callee id, the number of Call nodes whose func
\* has that id (hasattr(node.func, 'id') holds of a Name only)
CallCounts(nodes) ==
    LET named == {i \in 1..Len(nodes) :
                    nodes[i].kind = "Call" /\ Field(nodes[i], "func")[1].kind = "Name"}
        id(i) == Field(nodes[i], "func")[1].ident
    IN  [f \in {id(i) : i \in named} |-> Cardinality({i \in named : id(i) = f})]

_check_reusability(tree) ==
    LET score == 15
        function_calls == CallCounts(Walk(tree))
        overused == {f \in DOMAIN function_calls : function_calls[f] > 3}
    IN  Max(0, score - 2 * Cardinality(overused))

\* _check_best_practices: score -= 5 for a Global, else score -= 3 for a Try
\* none of whose handlers is an ExceptHandler
BestPracticesPenalties(nodes) ==
    [i \in 1..Len(nodes) |->
        IF nodes[i].kind = "Global" THEN 5
        ELSE IF /\ nodes[i].kind = "Try"
                /\ ~\E h \in 1..Len(Field(nodes[i], "handlers")) :
                       Field(nodes[i], "handlers")[h].kind = "ExceptHandler"
        THEN 3 ELSE 0]

_check_best_practices(tree) ==
    LET score == 20 - Sum(BestPracticesPenalties(Walk(tree)))
    IN  Max(0, score)

\* the scores, or the exception that leaves _analyze_python: a SyntaxError of
\* ast.parse is caught, any other exception of it is not
_analyze_python(code) ==
    IF code.ast.raised = "SyntaxError"
    THEN [raised |-> NoException, scores |-> [category \in CategorySet |-> 0]]
    ELSE IF code.ast.raised = "RecursionError"
    THEN [raised |-> AstTooDeep, scores |-> <<>>]
    ELSE IF code.ast.raised = "MemoryError"
    THEN [raised |-> AstOutOfMemory, scores |-> <<>>]
    ELSE IF code.ast.raised = "UnicodeEncodeError"
    THEN [raised |-> AstNotEncodable, scores |-> <<>>]
    ELSE [raised |-> NoException,
          scores |-> [category \in CategorySet |->
            CASE category = naming         -> _check_naming_conventions(code.ast.tree)
              [] category = modularity     -> _check_modularity(code.ast.tree)
              [] category = comments       -> _check_comments(code)
              [] category = formatting     -> _check_formatting(code)
              [] category = reusability    -> _check_reusability(code.ast.tree)
              [] category = best_practices -> _check_best_practices(code.ast.tree)]]

-----------------------------------------------------------------------------
(* The external feedback and what is read out of it.                       *)

\* the length of the longest run of characters of chars starting at s[start]
RunLen(s, start, chars) ==
    LET stop == CHOOSE i \in start..(Len(s) + 1) :
                    /\ i = Len(s) + 1 \/ s[i] \notin chars
                    /\ \A j \in start..(i - 1) : s[j] \in chars
    IN  IF start > Len(s) THEN 0 ELSE stop - start

\* sys.get_int_max_str_digits(), as the interpreter starts with
IntMaxStrDigits == 4300

\* 10^k
RECURSIVE BigPow10(_)
BigPow10(k) ==
    IF k = 0 THEN <<1>>
    ELSE IF k % 2 = 1 THEN BigMulSmall(BigPow10(k - 1), 10)
    ELSE LET Square(h) == Then(h, BigMul(h, h)) IN Square(BigPow10(k \div 2))

\* int(digits) of a non-empty run of decimal digits: its value, or the
\* ValueError of a run longer than the limit (leading zeros count)
ParseInt(digits) ==
    LET digit(i) == (CHOOSE v \in 1..Len(DigitSeq) : DigitSeq[v] = digits[i]) - 1
        RECURSIVE Range(_, _)
        Merge(high, places, low) ==
            Then(high, Then(low, BigAdd(BigMul(high, BigPow10(places)), low)))
        Range(lo, hi) ==
            IF lo = hi THEN BigFromInt(digit(lo))
            ELSE Merge(Range(lo, (lo + hi) \div 2),
                      hi - (lo + hi) \div 2,
                      Range((lo + hi) \div 2 + 1, hi))
    IN  IF Len(digits) > IntMaxStrDigits
        THEN [raised |-> IntStrTooLong, value |-> <<>>]
        ELSE [raised |-> NoException, value |-> Range(1, Len(digits))]

\* re.match(r"(\w+):\s*(\d+)", line): each of \w+, \s* and \d+ takes the
\* longest run there is, and giving characters back never helps the next
\* item, whose characters are of another class
ScoreMatch(line) ==
    LET word   == RunLen(line, 1, WordChars)
        spaces == RunLen(line, word + 2, SpaceChars)
        digits == RunLen(line, word + 2 + spaces, DigitChars)
    IN  IF word >= 1 /\ Len(line) > word /\ line[word + 1] = ":" /\ digits >= 1
        THEN [matched |-> TRUE,
              group1  |-> SubSeq(line, 1, word),
              group2  |-> SubSeq(line, word + 2 + spaces, word + 1 + spaces + digits)]
        ELSE [matched |-> FALSE, group1 |-> <<>>, group2 |-> <<>>]

\* the loop of _extract_scores over lines[i..]: the scores, or the exception
\* of the first int() that raises
RECURSIVE ExtractScoresLoop(_, _, _)
ExtractScoresLoop(lines, i, scores) ==
    LET Matched(match, value) ==
            IF value.raised # NoException
            THEN [raised |-> value.raised, scores |-> <<>>]
            ELSE ExtractScoresLoop(lines, i + 1,
                     Put(scores, Lower(match.group1), value.value))
        Line(match) ==
            IF ~match.matched
            THEN ExtractScoresLoop(lines, i + 1, scores)
            ELSE Matched(match, ParseInt(match.group2))
    IN  IF i > Len(lines) THEN [raised |-> NoException, scores |-> scores]
        ELSE Line(ScoreMatch(lines[i]))

\* scores = {} is <<>>, the function of no key
_extract_scores(feedback) == ExtractScoresLoop(Split(feedback, NL), 1, <<>>)

_extract_recommendations(feedback) ==
    LET lines == Split(feedback, NL)
    IN  Concat([i \in 1..Len(lines) |->
            IF StartsWith(lines[i], <<"-", " ">>)
            THEN <<SubSeq(lines[i], 3, Len(lines[i]))>>
            ELSE <<>>])

\* what _get_ai_analysis returns when generate_content answers text: the
\* dictionary, or the exception of _extract_scores
_get_ai_analysis(text) ==
    LET Analysis(extracted) ==
            IF extracted.raised # NoException
            THEN [raised            |-> extracted.raised,
                  detailed_feedback |-> <<>>,
                  recommendations   |-> <<>>,
                  scores            |-> <<>>]
            ELSE [raised            |-> NoException,
                  detailed_feedback |-> text,
                  recommendations   |-> _extract_recommendations(text),
                  scores            |-> extracted.scores]
    IN  Analysis(_extract_scores(text))

-----------------------------------------------------------------------------
(* Combining the two sources.                                              *)

Float07 == FloatLiteral(7, 10)

Float03 == FloatLiteral(3, 10)

Float04 == FloatLiteral(4, 10)

\* weight / 100, for every category
WeightFraction ==
    [category \in CategorySet |-> IntTrueDiv(BigFromInt(categories[category]), 100)]

\* float(ai_metrics.get(category, 0)) for every category: the external scores
\* as the doubles the expression multiplies
AiFloats(ai_metrics) ==
    [category \in CategorySet |-> DblFromBig(Get(ai_metrics, category, <<>>))]

\* the exception of the first int operand that is too large for a float
CombineRaises(ai_floats) ==
    IF \E category \in CategorySet : DblOverflows(ai_floats[category])
    THEN IntTooLargeForFloat
    ELSE NoException

_combine_metrics_HeavyAi(static_metrics, ai_metrics) ==
    LET Combined(ai_floats, raised) ==
            [raised  |-> raised,
             metrics |->
                IF raised # NoException THEN <<>>
                ELSE [category \in CategorySet |->
                        PyRound(DblMul(DblAdd(DblMul(DblFromInt(Get(static_metrics, category, 0)), Float07),
                                          DblMul(ai_floats[category], Float04)),
                                   WeightFraction[category]))]]
        Checked(ai_floats) == Then(ai_floats, Combined(ai_floats, CombineRaises(ai_floats)))
    IN  Then(ai_metrics, Checked(AiFloats(ai_metrics)))

_combine_metrics_Unscaled(static_metrics, ai_metrics) ==
    LET Combined(ai_floats, raised) ==
            [raised  |-> raised,
             metrics |->
                IF raised # NoException THEN <<>>
                ELSE [category \in CategorySet |->
                        PyRound(DblAdd(DblMul(DblFromInt(Get(static_metrics, category, 0)), Float07),
                                   DblMul(ai_floats[category], Float03)))]]
        Checked(ai_floats) == Then(ai_floats, Combined(ai_floats, CombineRaises(ai_floats)))
    IN  Then(ai_metrics, Checked(AiFloats(ai_metrics)))

\* the combined scores, or the OverflowError of an external score no double
\* holds; the static scores are TLC integers, the external ones of any size
_combine_metrics(static_metrics, ai_metrics) ==
    LET Combined(ai_floats, raised) ==
            [raised  |-> raised,
             metrics |->
                IF raised # NoException THEN <<>>
                ELSE [category \in CategorySet |->
                        PyRound(DblMul(DblAdd(DblMul(DblFromInt(Get(static_metrics, category, 0)), Float07),
                                          DblMul(ai_floats[category], Float03)),
                                   WeightFraction[category]))]]
        Checked(ai_floats) == Then(ai_floats, Combined(ai_floats, CombineRaises(ai_floats)))
    IN  Then(ai_metrics, Checked(AiFloats(ai_metrics)))

SnakeCaseAdvice ==
    <<"U","s","e"," ","s","n","a","k","e","_","c","a","s","e"," ","f","o","r"," ",
      "f","u","n","c","t","i","o","n"," ","a","n","d"," ","v","a","r","i","a","b","l","e",
      " ","n","a","m","e","s",".">>

LongFunctionAdvice ==
    <<"C","o","n","s","i","d","e","r"," ","b","r","e","a","k","i","n","g"," ","d","o","w","n",
      " ","l","o","n","g"," ","f","u","n","c","t","i","o","n","s"," ","i","n","t","o"," ",
      "s","m","a","l","l","e","r",","," ","f","o","c","u","s","e","d"," ",
      "f","u","n","c","t","i","o","n","s",".">>

\* every list of n different elements of S
RECURSIVE Arrangements(_, _)
Arrangements(S, n) ==
    IF n = 0 \/ S = {} THEN {<<>>}
    ELSE UNION {{<<x>> \o rest : rest \in Arrangements(S \ {x}, n - 1)} : x \in S}

\* list(set(xs)): the elements of xs once each, in an order the hashes of the
\* run decide, so every order is possible
ListOfSet(xs) ==
    LET S == {xs[i] : i \in 1..Len(xs)} IN Arrangements(S, Cardinality(S))

static_recommendations(static_metrics) ==
    (IF static_metrics[naming] < 8 THEN <<SnakeCaseAdvice>> ELSE <<>>)
    \o (IF static_metrics[modularity] < 15 THEN <<LongFunctionAdvice>> ELSE <<>>)

_combine_recommendations_NoSet(static_metrics, ai_recommendations) ==
    LET all == static_recommendations(static_metrics) \o ai_recommendations
    IN  {SubSeq(all, 1, Min(5, Len(all)))}

\* the lists _combine_recommendations can return
_combine_recommendations(static_metrics, ai_recommendations) ==
    LET all == static_recommendations(static_metrics) \o ai_recommendations
    IN  {SubSeq(l, 1, Min(5, Len(l))) : l \in ListOfSet(all)}

\* sum(values) of a dictionary of ints of any size
RECURSIVE BigSumOver(_, _)
BigSumOver(d, keys) ==
    IF keys = {} THEN <<>>
    ELSE LET k == CHOOSE x \in keys : TRUE
                 Plus(rest) == Then(rest, BigAdd(d[k], rest))
         IN  Plus(BigSumOver(d, keys \ {k}))

\* the overall score, or the OverflowError of a quotient no double holds or
\* of a product that is inf
_calculate_overall_score(metrics) ==
    LET Rounded(product) ==
            IF DblOverflows(product)
            THEN [raised |-> RoundOfInfinity, value |-> <<>>]
            ELSE [raised |-> NoException, value |-> PyRound(product)]
        Scaled(quotient) ==
            IF DblOverflows(quotient)
            THEN [raised |-> DivisionTooLargeForFloat, value |-> <<>>]
            ELSE Rounded(DblMul(quotient, DblFromInt(100)))
    IN  Then(metrics, Scaled(IntTrueDiv(BigSumOver(metrics, DOMAIN metrics),
                                        SumOver(categories, CategorySet))))

-----------------------------------------------------------------------------
(* Languages, file names and lines of feedback the requests are drawn from. *)

\* 'python'
python == <<"p","y","t","h","o","n">>

\* 'javascript'
javascript == <<"j","a","v","a","s","c","r","i","p","t">>

\* 'py'
py == <<"p","y">>

\* 'js'
js == <<"j","s">>

\* 'jsx'
jsx == <<"j","s","x">>

\* 'ruby'
ruby == <<"r","u","b","y">>

\* 'Python'
PythonCapital == <<"P","y","t","h","o","n">>

\* 'a.py'
FileAPy == <<"a",".","p","y">>

\* 'Naming: 85'
LineNaming85 == <<"N","a","m","i","n","g",":"," ","8","5">>

\* '- Add docstrings'
LineAddDocstrings == <<"-"," ","A","d","d"," ","d","o","c","s","t","r","i","n","g","s">>

\* 'Naming: 99999'
LineNaming99999 == <<"N","a","m","i","n","g",":"," ","9","9","9","9","9">>

\* 'Naming:<VT>85'
LineNamingVerticalTab85 == <<"N","a","m","i","n","g",":","\\x0b","8","5">>

\* 'Naming: 99999999999'
LineNamingElevenDigits ==
    <<"N","a","m","i","n","g",":"," ">> \o Rep(11, "9")

\* 'Naming: 999...9', 309 digits: an int above every double
LineNamingAboveFloat ==
    <<"N","a","m","i","n","g",":"," ">> \o Rep(309, "9")

\* 'Naming: 999...9', one digit more than int() reads
LineNamingAboveIntLimit ==
    <<"N","a","m","i","n","g",":"," ">> \o Rep(IntMaxStrDigits + 1, "9")

\* 'Modularity: 100'
LineModularity100 == <<"M","o","d","u","l","a","r","i","t","y",":"," ","1","0","0">>

-----------------------------------------------------------------------------
(* AiCodeReviewer.analyze_code, before and after the external call.        *)

language_map == [k \in {py, js, jsx} |-> IF k = py THEN python ELSE javascript]

\* language_map.get(language, language)
NormalizeLanguage(language) == Get(language_map, language, language)

analyze_code_static_Lenient(code, language) ==
    LET lang   == NormalizeLanguage(language)
        scored == _analyze_python(code)
    IN  IF lang = javascript
        THEN [raised |-> NoAnalyzeJavascript, static_analysis |-> <<>>, calls |-> <<>>]
        ELSE [raised |-> scored.raised, static_analysis |-> scored.scores,
              calls |-> <<"_analyze_python">>]

\* lines 26-40: the language is normalised and the static scorer chosen
analyze_code_static(code, language) ==
    LET lang   == NormalizeLanguage(language)
        scored == _analyze_python(code)
    IN  IF lang = python
        THEN [raised |-> scored.raised, static_analysis |-> scored.scores,
              calls |-> <<"_analyze_python">>]
        ELSE IF lang \in {javascript, jsx}
        THEN [raised |-> NoAnalyzeJavascript, static_analysis |-> <<>>, calls |-> <<>>]
        ELSE [raised |-> UnsupportedLanguage, static_analysis |-> <<>>, calls |-> <<>>]

\* lines 43-50: the results analyze_code can return once _get_ai_analysis has
\* ended with ai, or the exception raised on the way (its own where it raised)
analyze_code_results(static, ai) ==
    LET Results(combined_metrics, overall) ==
            IF overall.raised # NoException
            THEN [raised |-> overall.raised, results |-> {}]
            ELSE [raised  |-> NoException,
                  results |->
                    {[overall_score     |-> overall.value,
                      breakdown         |-> combined_metrics.metrics,
                      recommendations   |-> SubSeq(recommendations, 1, Min(5, Len(recommendations))),
                      detailed_feedback |-> ai.detailed_feedback]
                     : recommendations \in _combine_recommendations(static, ai.recommendations)}]
        Scored(combined_metrics) ==
            IF combined_metrics.raised # NoException
            THEN [raised |-> combined_metrics.raised, results |-> {}]
            ELSE Results(combined_metrics, _calculate_overall_score(combined_metrics.metrics))
    IN  IF Then(ai, ai.raised # NoException)
        THEN [raised |-> ai.raised, results |-> {}]
        ELSE Scored(_combine_metrics(static, ai.scores))

-----------------------------------------------------------------------------
(* The service: one request at a time, from the endpoint to its response.  *)
(* static_analysis and ai_analysis are the locals of analyze_code, with    *)
(* the exception of _get_ai_analysis beside what it returns; text_response *)
(* is the local of _get_ai_analysis.                                       *)

NoRequest ==
    [endpoint |-> "", code |-> Program(<<>>), language |-> <<>>,
     context |-> <<>>, filename |-> <<>>]

NoAnalysis ==
    [raised |-> NoException, detailed_feedback |-> <<>>, recommendations |-> <<>>,
     scores |-> <<>>]

NoResponse == [status_code |-> 0, detail |-> <<>>, body |-> <<>>]

Init ==
    /\ pc = "idle"
    /\ request = NoRequest
    /\ calls = <<>>
    /\ static_analysis = <<>>
    /\ text_response = <<>>
    /\ ai_analysis = NoAnalysis
    /\ response = NoResponse

ErrorPrefix ==
    [e \in {"code-review", "upload-code"} |->
        IF e = "code-review" THEN "Error analyzing code: " ELSE "Error processing file: "]

\* the reviewer is entered; it answers at once with an error, or calls the
\* external source and waits
EnterReviewer(code, language) ==
    LET begun == analyze_code_static(code, language)
    IN  IF begun.raised # NoException
        THEN /\ pc' = "done"
             /\ calls' = begun.calls
             /\ response' = ServerError(ErrorPrefix[request'.endpoint], begun.raised)
             /\ UNCHANGED <<static_analysis, text_response, ai_analysis>>
        ELSE /\ pc' = "awaiting_ai"
             /\ calls' = begun.calls \o <<"generate_content">>
             /\ static_analysis' = begun.static_analysis
             /\ UNCHANGED <<text_response, ai_analysis, response>>

\* POST /api/v1/code-review
analyze_code(code, language, context) ==
    /\ pc = "idle"
    /\ request' = [endpoint |-> "code-review", code |-> code, language |-> language,
                   context |-> context, filename |-> <<>>]
    /\ EnterReviewer(code, language)

\* file.filename of an upload that carries no file name: Python's None,
\* written as a value no str is
None == <<"None">>

\* POST /api/v1/upload-code, up to line 45: the handler awaits file.read()
\* and gives way to the event loop before it has looked at the file
upload_code(filename, content) ==
    /\ pc = "idle"
    /\ request' = [endpoint |-> "upload-code", code |-> content, language |-> <<>>,
                   context |-> <<>>, filename |-> filename]
    /\ pc' = "reading_file"
    /\ UNCHANGED <<calls, static_analysis, text_response, ai_analysis, response>>

\* lines 46-70 up to the external call, once file.read() has returned.  Every
\* exception raised in the try block, the HTTPException of line 48 included,
\* is caught by its except Exception clause.
upload_code_after_read ==
    LET parts    == Split(request.filename, ".")
        language == parts[Len(parts)]
        Raise(e) ==
            /\ pc' = "done"
            /\ response' = ServerError(ErrorPrefix["upload-code"], e)
            /\ UNCHANGED <<calls, static_analysis, text_response, ai_analysis>>
    IN  /\ pc = "reading_file"
        /\ IF request.filename = None
           THEN request' = request /\ Raise(NoneHasNoSplit)
           ELSE /\ request' = [request EXCEPT !.language = language,
                                              !.context = <<"File: ", request.filename>>]
                /\ IF language \notin {py, js, jsx} THEN Raise(UnsupportedFileType)
                   ELSE IF ~request.code.text THEN Raise(ContentNotUtf8)
                   ELSE EnterReviewer(request.code, language)

\* generate_content returns text: the rest of the handler runs, to a result
\* or to the exception the endpoint answers with status 500
AiReply(text) ==
    /\ pc = "awaiting_ai"
    /\ text_response' = text
    /\ LET Respond(outcome) ==
               IF outcome.raised # NoException
               THEN response' = ServerError(ErrorPrefix[request.endpoint], outcome.raised)
               ELSE \E result \in outcome.results :
                       response' = CodeReviewResponse(result, request.language)
           Analyzed(ai) ==
               /\ ai_analysis' = ai
               /\ Respond(analyze_code_results(static_analysis, ai))
       IN  Analyzed(_get_ai_analysis(text))
    /\ pc' = "done"
    /\ UNCHANGED <<request, calls, static_analysis>>

\* generate_content raises
AiFail ==
    /\ pc = "awaiting_ai"
    /\ ai_analysis' = [NoAnalysis EXCEPT !.raised = ExternalCallFailed]
    /\ response' = ServerError(ErrorPrefix[request.endpoint], ExternalCallFailed)
    /\ pc' = "done"
    /\ UNCHANGED <<request, calls, static_analysis, text_response>>

-----------------------------------------------------------------------------
(* Bounded inputs and the specifications.                                  *)

MaxStmts == 2

MaxFeedbackLines == 3

MaxRecLines == 5

\* percentages: "Score each category out of 100"
ScoreScale == 100

\* the lists of at most max elements of catalogue
ListsOver(catalogue, max) ==
    UNION {{[i \in 1..n |-> catalogue[p[i]]] : p \in [1..n -> 1..Len(catalogue)]}
           : n \in 0..max}

\* those whose elements come in the order of the catalogue
SortedListsOver(catalogue, max) ==
    UNION {{[i \in 1..n |-> catalogue[p[i]]] :
               p \in {q \in [1..n -> 1..Len(catalogue)] :
                         \A i \in 1..(n - 1) : q[i] <= q[i + 1]}}
           : n \in 0..max}

Texts(lineLists) == {Join(lines, NL) : lines \in lineLists}

Languages == {python, javascript, py, js, jsx, ruby, PythonCapital}

\* 'a.py', 'b.js', 'c.jsx', 'd.txt', 'e.PY', 'py', 'f.py.txt'
FileNames ==
    {FileAPy,
     <<"b",".","j","s">>,
     <<"c",".","j","s","x">>,
     <<"d",".","t","x","t">>,
     <<"e",".","P","Y">>,
     <<"p","y">>,
     <<"f",".","p","y",".","t","x","t">>}

MainCodes ==
    {Program(<<StmtAssign>>), Program(<<StmtSyntaxError>>),
     Program(<<StmtLongFunctions, StmtBadNames>>), Program(<<StmtVerticalTabLine>>),
     Program(<<StmtDeepAttribute>>), Program(<<StmtDeepUnary>>)}

MainFeedbacks ==
    Texts(ListsOver(<<LineNaming85, LineNaming99999, LineAddDocstrings,
                      LineModularity100>>, MaxFeedbackLines)
          \cup {<<LineNamingVerticalTab85>>, <<LineNamingElevenDigits>>,
                <<LineNamingAboveFloat>>, <<LineNamingAboveIntLimit>>,
                <<LineAddDocstrings, LineNaming85, LineNamingAboveIntLimit>>})

\* the requests of every kind, a few sources, short feedback.  A str of a
\* JSON body can hold a lone surrogate, the text of a file cannot; a file
\* can hold bytes that are no text and can come without a name.
Next ==
    \/ \E code \in MainCodes \cup {Program(<<StmtLoneSurrogate>>)}, language \in Languages :
          analyze_code(code, language, <<>>)
    \/ \E filename \in FileNames \cup {None}, content \in MainCodes \cup {NotUtf8} :
          upload_code(filename, content)
    \/ upload_code_after_read
    \/ \E text \in MainFeedbacks : AiReply(text)
    \/ AiFail

Spec == Init /\ [][Next]_vars

\* every program of at most MaxStmts sample statements, and the deeply nested
\* statements alone, together, and before and after a syntax error
StaticCodes ==
    {Program(stmts) : stmts \in ListsOver(Statements, MaxStmts)}
        \cup {Program(<<StmtDeepAttribute>>),
              Program(<<StmtDeepAttribute, StmtSyntaxError>>),
              Program(<<StmtSyntaxError, StmtDeepAttribute>>),
              Program(<<StmtDeepUnary>>),
              Program(<<StmtDeepUnary, StmtSyntaxError>>),
              Program(<<StmtSyntaxError, StmtDeepUnary>>),
              Program(<<StmtDeepAttribute, StmtDeepUnary>>)}

\* a lone surrogate alone, and before and after the statements ast.parse
\* raises on
SurrogateCodes ==
    {Program(<<StmtLoneSurrogate>>),
     Program(<<StmtLoneSurrogate, StmtSyntaxError>>),
     Program(<<StmtSyntaxError, StmtLoneSurrogate>>),
     Program(<<StmtLoneSurrogate, StmtDeepAttribute>>),
     Program(<<StmtDeepAttribute, StmtLoneSurrogate>>),
     Program(<<StmtLoneSurrogate, StmtDeepUnary>>),
     Program(<<StmtDeepUnary, StmtLoneSurrogate>>)}

NextStatic ==
    \/ \E code \in StaticCodes \cup SurrogateCodes, language \in {python, py} :
          analyze_code(code, language, <<>>)
    \/ \E content \in StaticCodes \cup {NotUtf8} : upload_code(FileAPy, content)
    \/ upload_code_after_read
    \/ \E text \in Texts({<<LineNaming85, LineAddDocstrings>>}) : AiReply(text)
    \/ AiFail

SpecStatic == Init /\ [][NextStatic]_vars

\* every feedback of at most MaxFeedbackLines lines, for one source; the
\* lines are
\*     'Naming: 85', 'naming:7', 'Best_practices:  100', '- Add docstrings',
\*     '- Naming: 3', 'Score 9: 10', ' Naming: 5', 'Naming: x1',
\*     '2nd: 42 of 100', 'Naming:<VT>85', 'Naming: 99999999999' and the line
\*     of more digits than int() reads
ExtractFeedbacks ==
    Texts(ListsOver(<<LineNaming85,
                      <<"n","a","m","i","n","g",":","7">>,
                      <<"B","e","s","t","_","p","r","a","c","t","i","c","e","s",":"," "," ","1","0","0">>,
                      LineAddDocstrings,
                      <<"-"," ","N","a","m","i","n","g",":"," ","3">>,
                      <<"S","c","o","r","e"," ","9",":"," ","1","0">>,
                      <<" ","N","a","m","i","n","g",":"," ","5">>,
                      <<"N","a","m","i","n","g",":"," ","x","1">>,
                      <<"2","n","d",":"," ","4","2"," ","o","f"," ","1","0","0">>,
                      LineNamingVerticalTab85,
                      LineNamingElevenDigits, LineNamingAboveIntLimit>>,
                    MaxFeedbackLines))

NextExtract ==
    \/ analyze_code(Program(<<StmtContinuation>>), python, <<>>)
    \/ upload_code(FileAPy, Program(<<StmtContinuation>>))
    \/ upload_code_after_read
    \/ \E text \in ExtractFeedbacks : AiReply(text)
    \/ AiFail

SpecExtract == Init /\ [][NextExtract]_vars

\* feedback of at most MaxRecLines recommendations, one of them the advice the
\* static rule gives, for a source that draws both static advices and one
\* that draws none; the lines are
\*     '- Add docstrings', '- Add tests', '- Use type hints',
\*     '- Split the module', '- Use snake_case for function and variable names.'
RecFeedbacks ==
    Texts(SortedListsOver(<<LineAddDocstrings,
                            <<"-"," ","A","d","d"," ","t","e","s","t","s">>,
                            <<"-"," ","U","s","e"," ","t","y","p","e"," ","h","i","n","t","s">>,
                            <<"-"," ","S","p","l","i","t"," ","t","h","e"," ","m","o","d","u","l","e">>,
                            <<"-"," ">> \o SnakeCaseAdvice>>, MaxRecLines))

RecCodes == {Program(<<StmtSyntaxError>>), Program(<<StmtContinuation>>)}

NextRecs ==
    \/ \E code \in RecCodes : analyze_code(code, python, <<>>)
    \/ \E content \in RecCodes : upload_code(FileAPy, content)
    \/ upload_code_after_read
    \/ \E text \in RecFeedbacks : AiReply(text)
    \/ AiFail

SpecRecs == Init /\ [][NextRecs]_vars

\* _combine_metrics and _calculate_overall_score on their own: every pair of
\* a static and an external score of 0..ScoreScale, the static score either
\* given to every category as it is or cut to the category's weight, the
\* external scores complete or partial with a key that is no category
InitCombine ==
    /\ pc = "combine"
    /\ request = NoRequest
    /\ calls = <<>>
    /\ response = NoResponse
    /\ text_response = <<>>
    /\ \E s \in 0..ScoreScale, cut \in BOOLEAN :
          static_analysis =
              [category \in CategorySet |->
                  IF cut THEN Min(s, categories[category]) ELSE s]
    /\ \E e \in 0..ScoreScale, keys \in {CategorySet, {naming, comments, ruby}} :
          ai_analysis = [NoAnalysis EXCEPT !.scores = [k \in keys |-> BigFromInt(e)]]

combine_scores ==
    /\ pc = "combine"
    /\ LET Scored(combined_metrics) ==
               [status_code |-> 0, detail |-> <<>>,
                body |-> [breakdown     |-> combined_metrics.metrics,
                          overall_score |->
                              _calculate_overall_score(combined_metrics.metrics).value]]
       IN  response' = Scored(_combine_metrics(static_analysis, ai_analysis.scores))
    /\ pc' = "combined"
    /\ UNCHANGED <<request, calls, static_analysis, text_response, ai_analysis>>

NextCombine == combine_scores

SpecCombine == InitCombine /\ [][NextCombine]_vars

-----------------------------------------------------------------------------
(* The claims.                                                             *)

Called(name) == \E i \in 1..Len(calls) : calls[i] = name

\* the request got past the endpoint's own check of the file extension
Admitted ==
    request.endpoint = "code-review" \/ request.language \in {py, js, jsx}

Succeeded == pc = "done" /\ response.status_code = 200

CompleteResult ==
    /\ response.status_code = 200
    /\ {"overall_score", "breakdown", "recommendations", "detailed_feedback"}
           \subseteq DOMAIN response.body
    /\ DOMAIN response.body.breakdown = CategorySet

ErrorOnly == response.status_code >= 400 /\ response.body = <<>>

\* a <= n, for an int a of any size
AtMost(a, n) == BigCmp(a, BigFromInt(n)) <= 0

\* C1: whatever Python text _analyze_python is given, parseable or not, it
\* has six static scores, each an integer from 0 to the weight of its
\* category.
C1_StaticScoresWithinWeights ==
    Called("_analyze_python") =>
        /\ DOMAIN static_analysis = CategorySet
        /\ \A category \in CategorySet :
              static_analysis[category] \in 0..categories[category]

\* C2: a python (or py) request whose text ast.parse gives no tree for is
\* scored 0 in all six categories without an error, goes on to the external
\* call, and ends with a complete result unless that call fails.
C2_UnparseablePythonScoresZero ==
    (/\ pc # "idle"
     /\ Admitted
     /\ NormalizeLanguage(request.language) = python
     /\ request.code.text
     /\ request.code.ast.raised # "None")
    => /\ static_analysis = [category \in CategorySet |-> 0]
       /\ calls = <<"_analyze_python", "generate_content">>
       /\ pc = "done" =>
             (IF ai_analysis.raised = ExternalCallFailed THEN ErrorOnly ELSE CompleteResult)

\* C3: for static and external scores of 0..100, every combined score is an
\* integer from 0 to the weight of its category and a nearest integer to
\* (0.7 * static + 0.3 * external) * weight / 100, where a category without an
\* external score takes 0 for it; the result has the six categories as keys
\* and no other.
C3_CombinedScoreWithinWeight ==
    pc = "combined" =>
        /\ DOMAIN response.body.breakdown = CategorySet
        /\ \A category \in CategorySet :
              LET s == static_analysis[category]
                  e == IF category \in DOMAIN ai_analysis.scores
                       THEN BigToInt(ai_analysis.scores[category]) ELSE 0
                  w == categories[category]
                  b == BigToInt(response.body.breakdown[category])
                  exact1000 == (7 * s + 3 * e) * w
              IN  /\ s \in 0..ScoreScale /\ e \in 0..ScoreScale
                  /\ b \in 0..w
                  /\ 1000 * b - exact1000 \in (0 - 500)..500

\* both scores at 100 reach the weight; a category the external scores leave
\* out gets 0.7 of it, and the foreign key leaves no trace
C3_Witness ==
    /\ pc = "combined"
    /\ ruby \in DOMAIN ai_analysis.scores
    /\ modularity \notin DOMAIN ai_analysis.scores
    /\ static_analysis[modularity] = ScoreScale
    /\ ai_analysis.scores[naming] = BigFromInt(ScoreScale)
    /\ response.body.breakdown[naming] = BigFromInt(categories[naming])
    /\ response.body.breakdown[modularity] = BigFromInt(14)

\* C4: every result of a review has an overall score from 0 to 100, whatever
\* integers the feedback carries.
C4_OverallScoreInRange ==
    Succeeded => AtMost(response.body.overall_score, 100)

\* C5: the recommendations of a result are at most 5 and no string comes
\* twice.
C5_RecommendationsAtMostFiveDistinct ==
    Succeeded =>
        LET recs == response.body.recommendations
        IN  /\ Len(recs) <= 5
            /\ \A i, j \in 1..Len(recs) : i # j => recs[i] # recs[j]

\* more than five different strings, one of them given by the static rule
\* and by the feedback alike
C5_Witness ==
    /\ Succeeded
    /\ Len(response.body.recommendations) = 5
    /\ LET given == ai_analysis.recommendations
           all   == static_recommendations(static_analysis) \o given
       IN  /\ Cardinality({all[i] : i \in 1..Len(all)}) > 5
           /\ all[1] = SnakeCaseAdvice
           /\ \E i \in 1..Len(given) : given[i] = SnakeCaseAdvice

\* C6: a javascript, js or jsx request is scored and, unless the external
\* call fails, ends with a complete result of six categories.
C6_JavascriptReviewed ==
    (/\ pc = "done"
     /\ Admitted
     /\ NormalizeLanguage(request.language) = javascript
     /\ ai_analysis.raised # ExternalCallFailed)
    => CompleteResult

\* C7: an uploaded file whose extension is not py, js or jsx is answered with
\* status 400 and the unsupported-file-type message, and nothing is scored
\* or called for it.
C7_UnsupportedUploadRejected400 ==
    (/\ pc = "done"
     /\ request.endpoint = "upload-code"
     /\ request.language \notin {py, js, jsx})
    => /\ response.status_code = 400
       /\ response.detail = <<UnsupportedFileType.detail>>
       /\ calls = <<>>

\* C8: a language that normalises to neither python nor javascript is
\* answered with an error before any scoring and any external call; a
\* finished request has a complete result or an error and nothing between;
\* a failed external call makes the request an error.
C8_RejectedBeforeScoringAndNoPartialResult ==
    /\ (/\ pc \notin {"idle", "reading_file"}
        /\ NormalizeLanguage(request.language) \notin {python, javascript})
          => (pc = "done" /\ ErrorOnly /\ calls = <<>>)
    /\ pc = "done" => ((CompleteResult /\ response.detail = <<>>) \/ ErrorOnly)
    /\ (pc = "done" /\ ai_analysis.raised = ExternalCallFailed) => ErrorOnly
    /\ pc = "awaiting_ai" => response = NoResponse

C8_Witness ==
    /\ pc = "done"
    /\ request.endpoint = "code-review"
    /\ request.language = PythonCapital
    /\ response.status_code = 500
    /\ response.detail[2].type = "ValueError"
    /\ calls = <<>>

\* the <<w, k, d>> for which line is w word characters, a colon, k whitespace
\* characters and a run of exactly d digits, and then anything: one triple
\* for a score line, none for any other line
ScoreLineParts(line) ==
    LET n == Len(line)
        words  == {w \in 1..(n - 1) :
                     line[w + 1] = ":" /\ \A i \in 1..w : line[i] \in WordChars}
        gaps(w) == {k \in 0..(n - w - 1) :
                     \A i \in (w + 2)..(w + 1 + k) : line[i] \in SpaceChars}
        runs(w, k) == {d \in 1..(n - w - 1 - k) :
                     /\ (w + 2 + k + d <= n) => line[w + 2 + k + d] \notin DigitChars
                     /\ \A i \in (w + 2 + k)..(w + 1 + k + d) : line[i] \in DigitChars}
    IN  UNION {UNION {{<<w, k, d>> : d \in runs(w, k)} : k \in gaps(w)} : w \in words}

\* the lowercased word of a score line with parts p
ScoreLineKey(line, p) == Lower(SubSeq(line, 1, p[1]))

\* its digits, from the first that is not 0
ScoreLineDigits(line, p) ==
    LET first  == p[1] + 2 + p[2]
        digits == SubSeq(line, first, first + p[3] - 1)
        lead   == RunLen(digits, 1, {"0"})
    IN  SubSeq(digits, lead + 1, Len(digits))

\* the decimal digits of a natural number, highest first; none for 0
RECURSIVE Decimal(_)
Decimal(a) ==
    IF a = <<>> THEN <<>>
    ELSE LET d == BigDivSmall(a, 10) IN Decimal(d.q) \o <<DigitSeq[d.r + 1]>>

\* C9: whatever text the external source answers, the extractor does not
\* raise; its scores map the lowercased word of every '<word>: <digits>' line
\* to the integer of the last such line for that word, and nothing else; its
\* recommendations are the lines that start with "- ", without these two
\* characters, in the order of the lines; no line gives both.
C9_ExtractorReadsScoresAndBullets ==
    (pc = "done" /\ Called("generate_content") /\ ai_analysis.raised # ExternalCallFailed) =>
        LET scores == ai_analysis.scores
            recs   == ai_analysis.recommendations
            lines  == Split(text_response, NL)
            parts  == [i \in 1..Len(lines) |-> ScoreLineParts(lines[i])]
            scoreLines  == {i \in 1..Len(lines) : parts[i] # {}}
            bulletLines == {i \in 1..Len(lines) : StartsWith(lines[i], <<"-", " ">>)}
            key    == [i \in scoreLines |->
                         ScoreLineKey(lines[i], CHOOSE p \in parts[i] : TRUE)]
            digits == [i \in scoreLines |->
                         ScoreLineDigits(lines[i], CHOOSE p \in parts[i] : TRUE)]
        IN  /\ ai_analysis.raised = NoException
            /\ \A i \in 1..Len(lines) : Cardinality(parts[i]) <= 1
            /\ DOMAIN scores = {key[i] : i \in scoreLines}
            /\ \A i \in scoreLines :
                  (\A j \in scoreLines : j > i => key[j] # key[i])
                      => Decimal(scores[key[i]]) = digits[i]
            /\ Len(recs) = Cardinality(bulletLines)
            /\ \A i \in bulletLines :
                  recs[Cardinality({j \in bulletLines : j <= i})]
                      = SubSeq(lines[i], 3, Len(lines[i]))
            /\ scoreLines \cap bulletLines = {}

\* C10: when every static score is at most its category's weight and every
\* external score at most 100, no combined score reaches the weight of its
\* category (the most are 4, 9, 9, 6, 6, 9) and the overall score is at most
\* 43.
C10_CombinedBelowWeight ==
    (/\ pc = "combined"
     /\ \A category \in CategorySet :
           static_analysis[category] <= categories[category])
    => /\ \A category \in CategorySet :
             /\ BigToInt(response.body.breakdown[category]) < categories[category]
             /\ BigToInt(response.body.breakdown[category]) <=
                   (CASE categories[category] = 10 -> 4
                      [] categories[category] = 15 -> 6
                      [] categories[category] = 20 -> 9)
       /\ BigToInt(response.body.overall_score) <= 43

\* every static score at its weight and every external score at 100
C10_Witness ==
    /\ pc = "combined"
    /\ static_analysis = categories
    /\ ai_analysis.scores = [category \in CategorySet |-> BigFromInt(ScoreScale)]
    /\ response.body.overall_score = BigFromInt(43)

=============================================================================
